---------------------------- MODULE Spec2Model ----------------------------
(***************************************************************************)
(* Model of the email-manager scoring pipeline:                            *)
(*   - EmailScorer (src/src/services/scoring.rs): the trusted-domain       *)
(*     registry and calculate_score;                                       *)
(*   - GmailService::parse_message (src/src/services/gmail.rs): the        *)
(*     normalisation of a provider message into an EmailSummary;           *)
(*   - the HTTP handlers (src/src/handlers/emails.rs) running as           *)
(*     concurrent tasks over the shared Arc<Mutex<GmailService>>.          *)
(*                                                                         *)
(* Strings on which the code works character by character (addresses,      *)
(* subjects, header values, domains) are sequences of one-character        *)
(* strings.  Labels and header names are only ever compared for equality   *)
(* and are plain TLA+ strings.  Only ASCII text is modelled.               *)
(***************************************************************************)
EXTENDS Integers, Sequences, FiniteSets, TLC

VARIABLES
    important_domains,  \* EmailScorer.important_domains (HashSet<String>)
    arg_sender,         \* calculate_score argument sender_email
    arg_subject,        \* calculate_score argument subject
    arg_labels,         \* calculate_score argument labels
    call,               \* the last calculate_score call: registry seen, value returned
    last_op,            \* the last EmailScorer method invoked
    message,            \* parse_message argument (google_gmail1::api::Message)
    pc,                 \* position of parse_message
    idx,                \* number of headers the loop has taken
    subject,            \* parse_message local `subject`
    sender,             \* parse_message local `sender`
    sender_email,       \* parse_message local `sender_email`
    date_str,           \* parse_message local `date_str`
    score_calls,        \* arguments of every calculate_score call parse_message made
    summary,            \* the EmailSummary returned
    tasks,              \* the handler invocations: request, position, locals, response
    service_lock,       \* SharedGmailService's tokio Mutex: holder and FIFO waiters
    scorer_lock         \* GmailService.scorer's tokio Mutex: holder (0 when free)

vars == <<important_domains, arg_sender, arg_subject, arg_labels, call, last_op,
          message, pc, idx, subject, sender, sender_email, date_str,
          score_calls, summary, tasks, service_lock, scorer_lock>>

handler_vars == <<tasks, service_lock, scorer_lock>>

scorer_vars == <<important_domains, arg_sender, arg_subject, arg_labels, call, last_op>>

parse_vars == <<message, pc, idx, subject, sender, sender_email, date_str,
                score_calls, summary>>

----------------------------------------------------------------------------
(* Option<T> *)

None == [some |-> FALSE, val |-> <<>>]

Some(v) == [some |-> TRUE, val |-> v]

unwrap_or_default(o) == IF o.some THEN o.val ELSE <<>>

----------------------------------------------------------------------------
(* str primitives used by the code *)

UpperChars == <<"A","B","C","D","E","F","G","H","I","J","K","L","M",
                "N","O","P","Q","R","S","T","U","V","W","X","Y","Z">>

LowerChars == <<"a","b","c","d","e","f","g","h","i","j","k","l","m",
                "n","o","p","q","r","s","t","u","v","w","x","y","z">>

LowerChar(c) ==
    IF \E k \in DOMAIN UpperChars : UpperChars[k] = c
    THEN LowerChars[CHOOSE k \in DOMAIN UpperChars : UpperChars[k] = c]
    ELSE c

\* str::to_lowercase
to_lowercase(s) == [i \in 1..Len(s) |-> LowerChar(s[i])]

\* str::contains(&str): substring search
contains(s, pat) ==
    \E i \in 0..(Len(s) - Len(pat)) : SubSeq(s, i + 1, i + Len(pat)) = pat

\* str::find(char): byte offset (0-based) of the first occurrence
find(s, c) ==
    IF \E i \in 1..Len(s) : s[i] = c
    THEN Some((CHOOSE i \in 1..Len(s) : s[i] = c /\ \A j \in 1..(i - 1) : s[j] # c) - 1)
    ELSE None

\* str::split(char): the pieces between the occurrences of c, in order
RECURSIVE split(_, _)
split(s, c) ==
    LET at == find(s, c) IN
    IF ~at.some THEN <<s>>
    ELSE <<SubSeq(s, 1, at.val)>> \o split(SubSeq(s, at.val + 2, Len(s)), c)

\* Iterator::nth (0-based)
nth(pieces, n) == IF n + 1 <= Len(pieces) THEN Some(pieces[n + 1]) ELSE None

\* slice.contains(&x) on a Vec
vec_contains(v, x) == \E i \in 1..Len(v) : v[i] = x

IsWhitespace(c) == c = " "

\* str::trim
RECURSIVE trim(_)
trim(s) ==
    IF s = <<>> THEN s
    ELSE IF IsWhitespace(s[1]) THEN trim(Tail(s))
    ELSE IF IsWhitespace(s[Len(s)]) THEN trim(SubSeq(s, 1, Len(s) - 1))
    ELSE s

----------------------------------------------------------------------------
(* EmailScorer *)

urgent_keywords ==
    << <<"u","r","g","e","n","t">>,
       <<"i","m","p","o","r","t","a","n","t">>,
       <<"a","s","a","p">>,
       <<"a","c","t","i","o","n"," ","r","e","q","u","i","r","e","d">>,
       <<"c","r","i","t","i","c","a","l">> >>

spam_indicators ==
    << <<"n","o","r","e","p","l","y">>,
       <<"n","e","w","s","l","e","t","t","e","r">>,
       <<"m","a","r","k","e","t","i","n","g">>,
       <<"p","r","o","m","o">>,
       <<"u","n","s","u","b","s","c","r","i","b","e">> >>

\* HashSet::insert
ToggleDomain(domains, domain) ==
    IF domain \in domains THEN domains \ {domain} ELSE domains \cup {domain}

InsertDomain(domains, domain) == domains \cup {domain}

\* the trusted-domain test placed before the exclusion tests
calculate_score_TrustedFirst(domains, sender_email_, subject_, labels) ==
    LET sender_lower  == to_lowercase(sender_email_)
        subject_lower == to_lowercase(subject_)
        domain        == nth(split(sender_email_, "@"), 1)
    IN  IF domain.some /\ domain.val \in domains THEN 3
        ELSE IF vec_contains(labels, "SPAM") \/ vec_contains(labels, "PROMOTIONS") THEN 1
        ELSE IF \E k \in DOMAIN spam_indicators : contains(sender_lower, spam_indicators[k]) THEN 1
        ELSE IF \E k \in DOMAIN urgent_keywords : contains(subject_lower, urgent_keywords[k]) THEN 3
        ELSE IF vec_contains(labels, "IMPORTANT") THEN 3
        ELSE 2

calculate_score(domains, sender_email_, subject_, labels) ==
    LET sender_lower  == to_lowercase(sender_email_)
        subject_lower == to_lowercase(subject_)
        domain        == nth(split(sender_email_, "@"), 1)
    IN  IF vec_contains(labels, "SPAM") \/ vec_contains(labels, "PROMOTIONS") THEN 1
        ELSE IF \E k \in DOMAIN spam_indicators : contains(sender_lower, spam_indicators[k]) THEN 1
        ELSE IF domain.some /\ domain.val \in domains THEN 3
        ELSE IF \E k \in DOMAIN urgent_keywords : contains(subject_lower, urgent_keywords[k]) THEN 3
        ELSE IF vec_contains(labels, "IMPORTANT") THEN 3
        ELSE 2

----------------------------------------------------------------------------
(* Inputs of the scorer *)

MaxSenderParts == 3

SenderParts == { <<"a">>, <<"@","b">>, <<"@","B">>, <<"P","r","o","m","o">> }

RECURSIVE Flatten(_)
Flatten(parts) == IF parts = <<>> THEN <<>> ELSE Head(parts) \o Flatten(Tail(parts))

\* every concatenation of at most MaxSenderParts parts
Senders ==
    { Flatten(ps) : ps \in UNION { [1..n -> SenderParts] : n \in 0..MaxSenderParts } }

Subjects ==
    { <<>>,
      <<"M","e","e","t","i","n","g">>,
      <<"U","R","G","E","N","T",":"," ","E","O","D">>,
      <<"x","A","s","a","P","x">>,
      <<"a","c","t","i","o","n","r","e","q","u","i","r","e","d">> }

LabelVecs ==
    { <<>>,
      <<"INBOX">>,
      <<"INBOX", "SPAM">>,
      <<"PROMOTIONS", "IMPORTANT">>,
      <<"UNREAD", "IMPORTANT">>,
      <<"spam">> }

Domains == { <<"b">>, <<"b","@","b">> }

NoCall == [made |-> FALSE, domains |-> {}, score |-> 0]

NoOp == [op |-> "none", domain |-> <<>>]

----------------------------------------------------------------------------
(* Idle values of the variables a specification does not use *)

NoName == [some |-> FALSE, val |-> ""]

NoPayload == [some |-> FALSE, val |-> [headers |-> None]]

IdleMessage == [id |-> None, snippet |-> None, label_ids |-> None, payload |-> NoPayload]

NoSummary ==
    [returned |-> FALSE, id |-> <<>>, subject |-> <<>>, sender |-> <<>>,
     sender_email |-> <<>>, date |-> 0, snippet |-> <<>>, is_read |-> FALSE,
     labels |-> <<>>, importance_score |-> 0]

NumTasks == 2

NoRequest ==
    [kind |-> "none", query |-> <<>>, min_score |-> 1, date_ok |-> TRUE,
     email_id |-> <<>>, ids |-> <<>>]

NoResponse ==
    [sent |-> FALSE, status |-> 0, code |-> "", emails |-> <<>>,
     deleted |-> 0, failed |-> 0, failed_ids |-> <<>>]

EmptyLocals ==
    [subject |-> <<>>, sender |-> <<>>, sender_email |-> <<>>, date_str |-> <<>>,
     panicked |-> FALSE]

IdleTask ==
    [req |-> NoRequest, pc |-> "idle", took_lock |-> FALSE, todo |-> <<>>,
     fetched |-> IdleMessage, locals |-> EmptyLocals, emails |-> <<>>,
     deleted_count |-> 0, failed_ids |-> <<>>, calls |-> <<>>, outcomes |-> <<>>,
     response |-> NoResponse]

FreeLock == [holder |-> 0, waiters |-> <<>>]

HandlersIdle ==
    /\ tasks = [t \in 1..NumTasks |-> IdleTask]
    /\ service_lock = FreeLock
    /\ scorer_lock = 0

ParseIdle ==
    /\ message = IdleMessage
    /\ pc = "idle"
    /\ idx = 0
    /\ subject = <<>>
    /\ sender = <<>>
    /\ sender_email = <<>>
    /\ date_str = <<>>
    /\ score_calls = <<>>
    /\ summary = NoSummary

----------------------------------------------------------------------------
(* Specification of the scorer: EmailScorer::new, then any sequence of      *)
(* add_important_domain and calculate_score calls                          *)

Init ==
    /\ important_domains = {}
    /\ arg_sender \in Senders
    /\ arg_subject \in Subjects
    /\ arg_labels \in LabelVecs
    /\ call = NoCall
    /\ last_op = NoOp
    /\ ParseIdle
    /\ HandlersIdle

add_important_domain(domain) ==
    /\ important_domains' = InsertDomain(important_domains, domain)
    /\ last_op' = [op |-> "add", domain |-> domain]
    /\ UNCHANGED <<arg_sender, arg_subject, arg_labels, call>>
    /\ UNCHANGED parse_vars
    /\ UNCHANGED handler_vars

Classify ==
    /\ call' = [made    |-> TRUE,
                domains |-> important_domains,
                score   |-> calculate_score(important_domains, arg_sender,
                                            arg_subject, arg_labels)]
    /\ last_op' = [op |-> "classify", domain |-> <<>>]
    /\ UNCHANGED <<important_domains, arg_sender, arg_subject, arg_labels>>
    /\ UNCHANGED parse_vars
    /\ UNCHANGED handler_vars

Next ==
    \/ \E domain \in Domains : add_important_domain(domain)
    \/ Classify

Spec == Init /\ [][Next]_vars

----------------------------------------------------------------------------
(* GmailService::parse_message *)

\* &s[from..to] (byte offsets, end excluded); the slice panics when from > to
\* or to > len
slice_ok(s, from, to) == from <= to /\ to <= Len(s)

slice(s, from, to) == SubSeq(s, from + 1, to)

\* chrono::DateTime::parse_from_rfc2822(..).ok().map(|dt| dt.with_timezone(&Utc)),
\* on the Date values of the model, as seconds since the epoch
parse_from_rfc2822(s) ==
    IF s = <<"1"," ","J","u","l"," ","2","0","0","3"," ","1","0",":","5","2"," ","+","0","0","0","0">>
    THEN Some(1057056720)
    ELSE IF s = <<"2"," ","J","u","l"," ","2","0","0","3"," ","1","0",":","5","2"," ","+","0","2","0","0">>
    THEN Some(1057135920)
    ELSE None

\* the values Utc::now() may return
NowValues == {1793664000, 1793664001}

\* the `if let Some(payload)` / `if let Some(headers)` guards of the loop
message_headers(m) ==
    IF m.payload.some /\ m.payload.val.headers.some
    THEN m.payload.val.headers.val
    ELSE <<>>

\* the Some("From") arm with the no-bracket branch forgetting `sender`
from_arm_KeepsSender(locals, from_value) ==
    LET email_start == find(from_value, "<")
        email_end   == find(from_value, ">")
    IN  IF email_start.some /\ email_end.some
        THEN IF ~slice_ok(from_value, email_start.val + 1, email_end.val)
             THEN [locals EXCEPT !.panicked = TRUE]
             ELSE LET address == slice(from_value, email_start.val + 1, email_end.val)
                      name    == trim(slice(from_value, 0, email_start.val))
                  IN  [locals EXCEPT !.sender_email = address,
                                     !.sender = IF name = <<>> THEN address ELSE name]
        ELSE [locals EXCEPT !.sender_email = from_value]

\* the Some("From") arm of the match
from_arm(locals, from_value) ==
    LET email_start == find(from_value, "<")
        email_end   == find(from_value, ">")
    IN  IF email_start.some
        THEN IF email_end.some
             THEN IF ~slice_ok(from_value, email_start.val + 1, email_end.val)
                  THEN [locals EXCEPT !.panicked = TRUE]
                  ELSE LET address == slice(from_value, email_start.val + 1, email_end.val)
                           name    == trim(slice(from_value, 0, email_start.val))
                       IN  [locals EXCEPT !.sender_email = address,
                                          !.sender = IF name = <<>> THEN address ELSE name]
             ELSE [locals EXCEPT !.sender_email = from_value, !.sender = from_value]
        ELSE [locals EXCEPT !.sender_email = from_value, !.sender = from_value]

\* one iteration of `for header in headers`: the match on header.name
match_header(locals, header) ==
    IF header.name.some /\ header.name.val = "Subject"
    THEN [locals EXCEPT !.subject = unwrap_or_default(header.value)]
    ELSE IF header.name.some /\ header.name.val = "From"
    THEN from_arm(locals, unwrap_or_default(header.value))
    ELSE IF header.name.some /\ header.name.val = "Date"
    THEN [locals EXCEPT !.date_str = unwrap_or_default(header.value)]
    ELSE locals

\* is_read with the negation lost
is_read_Inverted(label_ids) == vec_contains(label_ids, "UNREAD")

is_read_of(label_ids) == ~vec_contains(label_ids, "UNREAD")

\* the classifier handed the display name instead of the address
score_args_DisplayName(locals, label_ids) == <<locals.sender, locals.subject, label_ids>>

\* the arguments of scorer.calculate_score(&sender_email, &subject, &label_strs)
score_args(locals, label_ids) == <<locals.sender_email, locals.subject, label_ids>>

Locals ==
    [subject |-> subject, sender |-> sender, sender_email |-> sender_email,
     date_str |-> date_str, panicked |-> FALSE]

\* one header of the loop
ParseHeader ==
    /\ pc = "headers"
    /\ idx < Len(message_headers(message))
    /\ LET after == match_header(Locals, message_headers(message)[idx + 1]) IN
        /\ idx' = idx + 1
        /\ pc' = IF after.panicked THEN "panicked" ELSE "headers"
        /\ subject' = after.subject
        /\ sender' = after.sender
        /\ sender_email' = after.sender_email
        /\ date_str' = after.date_str
    /\ UNCHANGED <<message, score_calls, summary>>
    /\ UNCHANGED scorer_vars
    /\ UNCHANGED handler_vars

\* after the loop: the date, is_read, the score and the summary returned
ParseFinish ==
    /\ pc = "headers"
    /\ idx = Len(message_headers(message))
    /\ \E now \in NowValues :
        LET message_id == unwrap_or_default(message.id)
            snippet    == unwrap_or_default(message.snippet)
            label_ids  == unwrap_or_default(message.label_ids)
            parsed     == parse_from_rfc2822(date_str)
            date       == IF parsed.some THEN parsed.val ELSE now
            args       == score_args(Locals, label_ids)
            importance_score == calculate_score(important_domains, args[1], args[2], args[3])
        IN  /\ score_calls' = Append(score_calls, args)
            /\ summary' = [returned |-> TRUE,
                           id |-> message_id,
                           subject |-> subject,
                           sender |-> sender,
                           sender_email |-> sender_email,
                           date |-> date,
                           snippet |-> snippet,
                           is_read |-> is_read_of(label_ids),
                           labels |-> label_ids,
                           importance_score |-> importance_score]
    /\ pc' = "done"
    /\ UNCHANGED <<message, idx, subject, sender, sender_email, date_str>>
    /\ UNCHANGED scorer_vars
    /\ UNCHANGED handler_vars

(* Provider messages *)

MaxHeaders == 2

FromValues ==
    { None,
      Some(<<"J"," ","D"," ","<","j","@","x",">">>),
      Some(<<"j","@","x">>),
      Some(<<"<","j","@","x",">">>),
      Some(<<" "," ","<","j","@","x",">">>),
      Some(<<"J"," ","<","j","@","x">>),
      Some(<<"j","@","x",">">>),
      Some(<<">","J","<">>),
      Some(<<"J",">"," ","<","j","@","x",">">>),
      Some(<<"<",">">>),
      Some(<<"N"," ","<","n","o","r","e","p","l","y","@","x",">">>) }

SubjectValues == { None, Some(<<"H","i">>), Some(<<"A","S","A","P">>) }

DateValues ==
    { None,
      Some(<<"1"," ","J","u","l"," ","2","0","0","3"," ","1","0",":","5","2"," ","+","0","0","0","0">>),
      Some(<<"2"," ","J","u","l"," ","2","0","0","3"," ","1","0",":","5","2"," ","+","0","2","0","0">>),
      Some(<<"y","e","s","t","e","r","d","a","y">>) }

Headers ==
    { [name |-> Some("From"), value |-> v] : v \in FromValues }
      \cup { [name |-> Some("Subject"), value |-> v] : v \in SubjectValues }
      \cup { [name |-> Some("Date"), value |-> v] : v \in DateValues }
      \cup { [name |-> Some("To"), value |-> Some(<<"t">>)],
             [name |-> NoName, value |-> Some(<<"n">>)] }

HeaderLists == UNION { [1..n -> Headers] : n \in 0..MaxHeaders }

Payloads ==
    { NoPayload, Some([headers |-> None]) }
      \cup { Some([headers |-> Some(hs)]) : hs \in HeaderLists }

LabelIds ==
    { None,
      Some(<<>>),
      Some(<<"UNREAD">>),
      Some(<<"INBOX", "UNREAD", "IMPORTANT">>),
      Some(<<"INBOX", "SPAM">>),
      Some(<<"INBOX">>) }

Messages ==
    { [id |-> i, snippet |-> i, label_ids |-> l, payload |-> p] :
        i \in { None, Some(<<"m","1">>) }, l \in LabelIds, p \in Payloads }

(* Specification of parse_message on the scorer of GmailService::new *)

InitParse ==
    /\ important_domains = {}
    /\ arg_sender = <<>>
    /\ arg_subject = <<>>
    /\ arg_labels = <<>>
    /\ call = NoCall
    /\ last_op = NoOp
    /\ message \in Messages
    /\ pc = "headers"
    /\ idx = 0
    /\ subject = <<>>
    /\ sender = <<>>
    /\ sender_email = <<>>
    /\ date_str = <<>>
    /\ score_calls = <<>>
    /\ summary = NoSummary
    /\ HandlersIdle

NextParse ==
    \/ ParseHeader
    \/ ParseFinish

SpecParse == InitParse /\ [][NextParse]_vars

----------------------------------------------------------------------------
(* ApiError and the handlers' responses *)

\* ApiError::error_response
error_response(kind) ==
    IF kind = "NotFound" THEN [status |-> 404, code |-> "NOT_FOUND"]
    ELSE IF kind = "ValidationError" THEN [status |-> 400, code |-> "VALIDATION_ERROR"]
    ELSE IF kind = "AuthenticationError" THEN [status |-> 401, code |-> "AUTHENTICATION_ERROR"]
    ELSE IF kind = "RateLimitError" THEN [status |-> 429, code |-> "RATE_LIMIT_ERROR"]
    ELSE [status |-> 500, code |-> "INTERNAL_ERROR"]

\* Err(e) returned by a handler
err_response(kind) ==
    [NoResponse EXCEPT !.sent = TRUE,
                       !.status = error_response(kind).status,
                       !.code = error_response(kind).code]

\* HttpResponse::Ok().json(..)
ok_response == [NoResponse EXCEPT !.sent = TRUE, !.status = 200, !.code = "OK"]

IsListKind(kind) == kind \in {"recent", "today", "by_date", "search"}

IsModifyKind(kind) == kind \in {"mark_as_read", "mark_as_unread", "delete_email"}

\* only the search check, the bulk-delete check forgotten
validation_error_SearchOnly(req) ==
    \/ req.kind = "by_date" /\ ~req.date_ok
    \/ req.kind = "search" /\ req.query = <<>>

\* the checks a handler makes before gmail_service.lock()
validation_error(req) ==
    \/ req.kind = "by_date" /\ ~req.date_ok
    \/ req.kind = "search" /\ req.query = <<>>
    \/ req.kind = "bulk_delete" /\ req.ids = <<>>

----------------------------------------------------------------------------
(* tokio::sync::Mutex: lock() queues the caller, the guard's drop hands the *)
(* lock to the first waiter                                                *)

\* the scorer guard kept after parse_message returns
guard_dropped_Kept(holder) == holder

\* MutexGuard::drop at the end of parse_message: the scorer lock is free again
guard_dropped(holder) == 0

lock_is_free(lock) == lock.holder = 0 /\ lock.waiters = <<>>

release(lock) ==
    IF lock.waiters = <<>> THEN FreeLock
    ELSE [holder |-> Head(lock.waiters), waiters |-> Tail(lock.waiters)]

\* positions after which the handler's future no longer exists
Terminal == {"done", "aborted"}

\* positions at which a provider call of the task is in flight
AwaitingProvider == {"list_call", "get_call", "op_call", "bulk_call"}

----------------------------------------------------------------------------
(* The provider's answers *)

Id1 == <<"m","1">>

Id2 == <<"m","2">>

ValidDate ==
    <<"1"," ","J","u","l"," ","2","0","0","3"," ","1","0",":","5","2"," ","+","0","0","0","0">>

\* an urgent message from a named sender
MessageUrgent ==
    [id |-> Some(Id1), snippet |-> Some(Id1), label_ids |-> Some(<<"INBOX", "UNREAD">>),
     payload |-> Some([headers |-> Some(<<
        [name |-> Some("From"), value |-> Some(<<"J"," ","D"," ","<","j","@","x",">">>)],
        [name |-> Some("Subject"), value |-> Some(<<"A","S","A","P">>)],
        [name |-> Some("Date"), value |-> Some(ValidDate)] >>)])]

\* a message from a noreply sender
MessageNoreply ==
    [id |-> Some(Id2), snippet |-> None, label_ids |-> Some(<<"INBOX">>),
     payload |-> Some([headers |-> Some(<<
        [name |-> Some("Date"), value |-> Some(ValidDate)],
        [name |-> Some("From"),
         value |-> Some(<<"N"," ","<","n","o","r","e","p","l","y","@","x",">">>)] >>)])]

\* a message whose From value closes its bracket before opening it
MessageReversed ==
    [id |-> Some(Id2), snippet |-> None, label_ids |-> None,
     payload |-> Some([headers |-> Some(<<
        [name |-> Some("From"), value |-> Some(<<">","J","<">>)],
        [name |-> Some("Subject"), value |-> Some(<<"H","i">>)] >>)])]

ProviderMessages == { MessageUrgent, MessageNoreply, MessageReversed }

\* messages_get("me", id).doit(): an error or a message of that id
GetResults(id) ==
    { [ok |-> FALSE, message |-> IdleMessage] }
      \cup { [ok |-> TRUE, message |-> m] : m \in { n \in ProviderMessages : n.id = Some(id) } }

\* messages_list(..).doit(): an error, or a list (possibly absent) of
\* entries whose id may be absent
ListResults ==
    { [ok |-> FALSE, messages |-> None],
      [ok |-> TRUE,  messages |-> None],
      [ok |-> TRUE,  messages |-> Some(<< [id |-> None], [id |-> Some(Id1)],
                                          [id |-> Some(Id2)] >>)] }

----------------------------------------------------------------------------
(* GmailService methods as run by a handler *)

\* the header loop of parse_message, stopped by a panic
RECURSIVE scan_headers(_, _)
scan_headers(locals, hs) ==
    IF hs = <<>> \/ locals.panicked THEN locals
    ELSE scan_headers(match_header(locals, Head(hs)), Tail(hs))

\* the EmailSummary parse_message returns for the extracted locals
build_summary(m, locals, domains, now) ==
    LET label_ids == unwrap_or_default(m.label_ids)
        parsed    == parse_from_rfc2822(locals.date_str)
        args      == score_args(locals, label_ids)
    IN  [returned |-> TRUE,
         id |-> unwrap_or_default(m.id),
         subject |-> locals.subject,
         sender |-> locals.sender,
         sender_email |-> locals.sender_email,
         date |-> IF parsed.some THEN parsed.val ELSE now,
         snippet |-> unwrap_or_default(m.snippet),
         is_read |-> is_read_of(label_ids),
         labels |-> label_ids,
         importance_score |-> calculate_score(domains, args[1], args[2], args[3])]

\* the ids of `for message in message_list { if let Some(id) = message.id`
RECURSIVE listed_ids(_)
listed_ids(entries) ==
    IF entries = <<>> THEN <<>>
    ELSE (IF Head(entries).id.some THEN <<Head(entries).id.val>> ELSE <<>>)
           \o listed_ids(Tail(entries))

\* emails.retain(|email| email.importance_score >= min_score)
RECURSIVE retain(_, _)
retain(emails, min_score) ==
    IF emails = <<>> THEN <<>>
    ELSE (IF Head(emails).importance_score >= min_score THEN <<Head(emails)>> ELSE <<>>)
           \o retain(Tail(emails), min_score)

\* the Ok response of the list handlers (search filters by min_score first)
respond_list(task) ==
    LET emails == IF task.req.kind = "search" /\ task.req.min_score > 1
                  THEN retain(task.emails, task.req.min_score)
                  ELSE task.emails
    IN  [task EXCEPT !.pc = "done",
                     !.response = [ok_response EXCEPT !.emails = emails]]

\* the loop over the listed ids: fetch the next one, or respond
next_get(task) ==
    IF task.todo = <<>> THEN respond_list(task)
    ELSE [task EXCEPT !.pc = "get_call",
                      !.calls = Append(@, [op |-> "get", id |-> Head(task.todo)])]

\* bulk_delete stopping at the first failed delete
next_delete_StopAtFailure(task) ==
    IF task.todo = <<>> \/ task.failed_ids # <<>>
    THEN [task EXCEPT !.pc = "done",
                      !.response = [ok_response EXCEPT !.deleted = task.deleted_count,
                                                       !.failed = Len(task.failed_ids),
                                                       !.failed_ids = task.failed_ids]]
    ELSE [task EXCEPT !.pc = "bulk_call",
                      !.calls = Append(@, [op |-> "delete", id |-> Head(task.todo)])]

\* the loop of bulk_delete: delete the next id, or respond
next_delete(task) ==
    IF task.todo = <<>>
    THEN [task EXCEPT !.pc = "done",
                      !.response = [ok_response EXCEPT !.deleted = task.deleted_count,
                                                       !.failed = Len(task.failed_ids),
                                                       !.failed_ids = task.failed_ids]]
    ELSE [task EXCEPT !.pc = "bulk_call",
                      !.calls = Append(@, [op |-> "delete", id |-> Head(task.todo)])]

\* the task's new state, the service lock released when its future ended
Becomes(t, task) ==
    /\ tasks' = [tasks EXCEPT ![t] = task]
    /\ service_lock' = IF task.pc \in Terminal /\ service_lock.holder = t
                       THEN release(service_lock)
                       ELSE service_lock

----------------------------------------------------------------------------
(* The handlers, one task per request *)

\* the provider call a read-toggle or delete handler makes
provider_op(kind) ==
    IF kind = "mark_as_read" THEN "remove_unread"
    ELSE IF kind = "mark_as_unread" THEN "add_unread"
    ELSE "delete"

\* handler entry: the validation, then gmail_service.lock()
Begin(t) ==
    /\ tasks[t].pc = "start"
    /\ IF validation_error(tasks[t].req)
       THEN /\ tasks' = [tasks EXCEPT ![t].pc = "done",
                                      ![t].response = err_response("ValidationError")]
            /\ UNCHANGED service_lock
       ELSE IF lock_is_free(service_lock)
       THEN /\ tasks' = [tasks EXCEPT ![t].pc = "locked", ![t].took_lock = TRUE]
            /\ service_lock' = [holder |-> t, waiters |-> <<>>]
       ELSE /\ tasks' = [tasks EXCEPT ![t].pc = "waiting"]
            /\ service_lock' = [service_lock EXCEPT !.waiters = Append(@, t)]
    /\ UNCHANGED scorer_lock
    /\ UNCHANGED <<scorer_vars, parse_vars>>

\* a waiter that was handed the lock resumes
Wake(t) ==
    /\ tasks[t].pc = "waiting"
    /\ service_lock.holder = t
    /\ tasks' = [tasks EXCEPT ![t].pc = "locked", ![t].took_lock = TRUE]
    /\ UNCHANGED <<service_lock, scorer_lock>>
    /\ UNCHANGED <<scorer_vars, parse_vars>>

\* with the lock held, the handler's first provider call
CallProvider(t) ==
    /\ tasks[t].pc = "locked"
    /\ LET task == tasks[t] IN
       IF IsListKind(task.req.kind)
       THEN Becomes(t, [task EXCEPT !.pc = "list_call",
                                    !.calls = Append(@, [op |-> "list", id |-> <<>>])])
       ELSE IF IsModifyKind(task.req.kind)
       THEN Becomes(t, [task EXCEPT !.pc = "op_call",
                                    !.calls = Append(@, [op |-> provider_op(task.req.kind),
                                                         id |-> task.req.email_id])])
       ELSE Becomes(t, next_delete([task EXCEPT !.todo = task.req.ids]))
    /\ UNCHANGED scorer_lock
    /\ UNCHANGED <<scorer_vars, parse_vars>>

\* messages_list returns: an error ends the handler, a list starts the fetches
ListReturns(t) ==
    /\ tasks[t].pc = "list_call"
    /\ \E r \in ListResults :
        LET task == [tasks[t] EXCEPT !.outcomes = Append(@, r.ok)] IN
        IF ~r.ok
        THEN Becomes(t, [task EXCEPT !.pc = "done",
                                     !.response = err_response("GmailApiError")])
        ELSE Becomes(t, next_get([task EXCEPT
                                    !.todo = listed_ids(unwrap_or_default(r.messages))]))
    /\ UNCHANGED scorer_lock
    /\ UNCHANGED <<scorer_vars, parse_vars>>

\* messages_get returns: an error skips the message; a message has its
\* headers extracted, up to scorer.lock()
GetReturns(t) ==
    /\ tasks[t].pc = "get_call"
    /\ \E r \in GetResults(Head(tasks[t].todo)) :
       \E locals \in { scan_headers(EmptyLocals, message_headers(r.message)) } :
        LET task == [tasks[t] EXCEPT !.outcomes = Append(@, r.ok)] IN
        IF ~r.ok
        THEN Becomes(t, next_get([task EXCEPT !.todo = Tail(@)]))
        ELSE Becomes(t, [task EXCEPT
                            !.pc = IF locals.panicked THEN "aborted" ELSE "scorer_wait",
                            !.fetched = r.message,
                            !.locals = locals])
    /\ UNCHANGED scorer_lock
    /\ UNCHANGED <<scorer_vars, parse_vars>>

\* scorer.lock().await
AcquireScorer(t) ==
    /\ tasks[t].pc = "scorer_wait"
    /\ scorer_lock = 0
    /\ scorer_lock' = t
    /\ tasks' = [tasks EXCEPT ![t].pc = "scoring"]
    /\ UNCHANGED service_lock
    /\ UNCHANGED <<scorer_vars, parse_vars>>

\* calculate_score, the summary returned (the scorer guard dropped), and
\* the loop going on to the next id
Score(t) ==
    /\ tasks[t].pc = "scoring"
    /\ scorer_lock = t
    /\ \E now \in NowValues :
       \E email \in { build_summary(tasks[t].fetched, tasks[t].locals,
                                     important_domains, now) } :
       \E after \in { next_get([tasks[t] EXCEPT !.emails = Append(@, email),
                                                !.todo = Tail(@),
                                                !.fetched = IdleMessage,
                                                !.locals = EmptyLocals]) } :
        Becomes(t, after)
    /\ scorer_lock' = guard_dropped(t)
    /\ UNCHANGED <<scorer_vars, parse_vars>>

\* messages_modify / messages_delete returns to a single-message handler
OpReturns(t) ==
    /\ tasks[t].pc = "op_call"
    /\ \E ok \in BOOLEAN :
        LET task == [tasks[t] EXCEPT !.outcomes = Append(@, ok)] IN
        Becomes(t, [task EXCEPT !.pc = "done",
                                !.response = IF ok THEN ok_response
                                             ELSE err_response("GmailApiError")])
    /\ UNCHANGED scorer_lock
    /\ UNCHANGED <<scorer_vars, parse_vars>>

\* messages_delete returns to bulk_delete: count it, go on
BulkDeleteReturns(t) ==
    /\ tasks[t].pc = "bulk_call"
    /\ \E ok \in BOOLEAN :
        LET task == [tasks[t] EXCEPT !.outcomes = Append(@, ok)] IN
        Becomes(t, next_delete(
            [task EXCEPT !.deleted_count = IF ok THEN @ + 1 ELSE @,
                         !.failed_ids = IF ok THEN @ ELSE Append(@, Head(task.todo)),
                         !.todo = Tail(@)]))
    /\ UNCHANGED scorer_lock
    /\ UNCHANGED <<scorer_vars, parse_vars>>

\* every step of task t
TaskStep(t) ==
    \/ Begin(t)
    \/ Wake(t)
    \/ CallProvider(t)
    \/ ListReturns(t)
    \/ GetReturns(t)
    \/ AcquireScorer(t)
    \/ Score(t)
    \/ OpReturns(t)
    \/ BulkDeleteReturns(t)

(* Requests *)

Query == <<"q">>

Request(kind) == [NoRequest EXCEPT !.kind = kind]

HandlerRequests ==
    { Request("recent"),
      Request("today"),
      Request("by_date"),
      [Request("by_date") EXCEPT !.date_ok = FALSE],
      Request("search"),
      [Request("search") EXCEPT !.query = Query, !.min_score = 3],
      [Request("mark_as_read") EXCEPT !.email_id = Id1],
      [Request("mark_as_unread") EXCEPT !.email_id = Id1],
      [Request("delete_email") EXCEPT !.email_id = Id2],
      Request("bulk_delete"),
      [Request("bulk_delete") EXCEPT !.ids = <<Id1, Id2>>] }

StartTask(req) == [IdleTask EXCEPT !.req = req, !.pc = "start"]

ScorerAndParseIdle ==
    /\ important_domains = {}
    /\ arg_sender = <<>>
    /\ arg_subject = <<>>
    /\ arg_labels = <<>>
    /\ call = NoCall
    /\ last_op = NoOp
    /\ ParseIdle

(* Specification of NumTasks concurrent requests *)

InitHandlers ==
    /\ tasks \in [1..NumTasks -> { StartTask(req) : req \in HandlerRequests }]
    /\ service_lock = FreeLock
    /\ scorer_lock = 0
    /\ ScorerAndParseIdle

NextHandlers ==
    \E t \in 1..NumTasks :
        \/ Begin(t)
        \/ Wake(t)
        \/ CallProvider(t)
        \/ ListReturns(t)
        \/ GetReturns(t)
        \/ AcquireScorer(t)
        \/ Score(t)
        \/ OpReturns(t)
        \/ BulkDeleteReturns(t)

SpecHandlers == InitHandlers /\ [][NextHandlers]_vars

\* one request of each handler shape: a listing, a rejected input, a
\* single modification, a bulk deletion
LockRequests ==
    { [Request("search") EXCEPT !.query = Query, !.min_score = 3],
      Request("search"),
      [Request("mark_as_read") EXCEPT !.email_id = Id1],
      [Request("bulk_delete") EXCEPT !.ids = <<Id1, Id2>>] }

InitHandlersFair ==
    /\ tasks \in [1..NumTasks -> { StartTask(req) : req \in LockRequests }]
    /\ service_lock = FreeLock
    /\ scorer_lock = 0
    /\ ScorerAndParseIdle

\* every task that can step eventually does: the runtime polls a ready
\* future, and every provider call returns
SpecHandlersFair ==
    InitHandlersFair /\ [][NextHandlers]_vars /\ \A t \in 1..NumTasks : WF_vars(TaskStep(t))

(* Specification of one bulk_delete request *)

MaxIds == 3

BulkIdLists == UNION { [1..n -> {Id1, Id2}] : n \in 0..MaxIds }

InitBulk ==
    /\ \E ids \in BulkIdLists :
        tasks = [t \in 1..NumTasks |->
                    IF t = 1 THEN StartTask([Request("bulk_delete") EXCEPT !.ids = ids])
                    ELSE IdleTask]
    /\ service_lock = FreeLock
    /\ scorer_lock = 0
    /\ ScorerAndParseIdle

NextBulk ==
    \E t \in 1..NumTasks :
        \/ Begin(t)
        \/ CallProvider(t)
        \/ BulkDeleteReturns(t)

SpecBulk == InitBulk /\ [][NextBulk]_vars

----------------------------------------------------------------------------
(* The classifier's contract in the terms of its specification: the ordered *)
(* rule list, with the sender's domain being everything after the first '@' *)

\* the whole substring after the first '@', if there is one
DomainAfterFirstAt(address) ==
    LET at == find(address, "@") IN
    IF at.some THEN Some(SubSeq(address, at.val + 2, Len(address))) ELSE None

CountChar(s, c) == Cardinality({ i \in 1..Len(s) : s[i] = c })

HasExclusionLabel(labels) ==
    \E i \in 1..Len(labels) : labels[i] \in {"SPAM", "PROMOTIONS"}

HasSpamIndicator(address) ==
    \E k \in DOMAIN spam_indicators : contains(to_lowercase(address), spam_indicators[k])

HasUrgentKeyword(text) ==
    \E k \in DOMAIN urgent_keywords : contains(to_lowercase(text), urgent_keywords[k])

HasImportantLabel(labels) == \E i \in 1..Len(labels) : labels[i] = "IMPORTANT"

DomainIsTrusted(domains, address) ==
    DomainAfterFirstAt(address).some /\ DomainAfterFirstAt(address).val \in domains

\* rules 1-6 as (matches, tier) pairs, in the contract's order
Rules(domains, address, text, labels) ==
    << [matches |-> HasExclusionLabel(labels),         tier |-> 1],
       [matches |-> HasSpamIndicator(address),         tier |-> 1],
       [matches |-> DomainIsTrusted(domains, address), tier |-> 3],
       [matches |-> HasUrgentKeyword(text),            tier |-> 3],
       [matches |-> HasImportantLabel(labels),         tier |-> 3],
       [matches |-> TRUE,                              tier |-> 2] >>

FirstMatchTier(domains, address, text, labels) ==
    LET rs    == Rules(domains, address, text, labels)
        first == CHOOSE k \in DOMAIN rs : rs[k].matches /\ \A j \in 1..(k - 1) : ~rs[j].matches
    IN  rs[first].tier

\* C1: whenever the labels contain SPAM or PROMOTIONS, or the lower-cased
\* sender contains a spam indicator, calculate_score returns 1 (Low), whatever
\* the registry, the subject and the other labels are.
C1_ExclusionOutranksInclusion ==
    (call.made /\ (HasExclusionLabel(arg_labels) \/ HasSpamIndicator(arg_sender)))
        => call.score = 1

\* a Low result for a sender with a spam indicator whose domain is registered,
\* with an urgent subject and the IMPORTANT label
C1_Witness ==
    /\ call.made
    /\ call.score = 1
    /\ HasSpamIndicator(arg_sender)
    /\ ~HasExclusionLabel(arg_labels)
    /\ nth(split(arg_sender, "@"), 1).some
    /\ nth(split(arg_sender, "@"), 1).val \in call.domains
    /\ HasUrgentKeyword(arg_subject)
    /\ HasImportantLabel(arg_labels)

\* C2: calculate_score returns the tier of the first matching rule of the
\* ordered list (exclusion label, spam indicator, trusted domain, urgent
\* keyword, IMPORTANT label, default), so the result is one of 1, 2, 3 and is
\* 2 exactly when none of rules 1-5 matches.
C2_FirstMatchingRule ==
    call.made =>
        /\ call.score \in {1, 2, 3}
        /\ call.score = FirstMatchTier(call.domains, arg_sender, arg_subject, arg_labels)

\* C2 on the addresses where the two readings of "domain" agree
C2_AtMostOneAt ==
    (call.made /\ CountChar(arg_sender, "@") <= 1) =>
        call.score = FirstMatchTier(call.domains, arg_sender, arg_subject, arg_labels)

\* C3: when no Low rule matches, the result is High if the whole substring
\* after the first '@' is a member of the registry, and the registry makes
\* it High in no other case (no '@': the check is skipped; "a@b@b" is not High
\* because "b" is registered).
C3_TrustedDomainRule ==
    (call.made /\ ~HasExclusionLabel(arg_labels) /\ ~HasSpamIndicator(arg_sender)) =>
        /\ DomainIsTrusted(call.domains, arg_sender) => call.score = 3
        /\ (~DomainIsTrusted(call.domains, arg_sender)
              /\ ~HasUrgentKeyword(arg_subject) /\ ~HasImportantLabel(arg_labels))
            => call.score = 2

\* C3 on the addresses with at most one '@'
C3_AtMostOneAt ==
    CountChar(arg_sender, "@") <= 1 => C3_TrustedDomainRule

\* C4: registering a domain that is already registered leaves the registry,
\* and so the score of the inputs, as it was; registering two domains in
\* either order gives the same registry.
C4_RegisterIdempotent ==
    [][ last_op'.op = "add" =>
          /\ last_op'.domain \in important_domains =>
                /\ important_domains' = important_domains
                /\ calculate_score(important_domains', arg_sender, arg_subject, arg_labels)
                     = calculate_score(important_domains, arg_sender, arg_subject, arg_labels)
          /\ \A other \in Domains :
                InsertDomain(important_domains', other)
                  = InsertDomain(InsertDomain(important_domains, other), last_op'.domain)
      ]_vars

\* a domain has just been registered for the second time
C4_Witness ==
    /\ last_op.op = "add"
    /\ call.made
    /\ last_op.domain \in call.domains
    /\ Cardinality(important_domains) = 2

\* C5: a registered domain stays registered, and every later call whose
\* sender domain is registered and that matches no Low rule returns High.
C5_RegistrationVisible ==
    [][ /\ important_domains \subseteq important_domains'
        /\ (call'.made /\ ~HasExclusionLabel(arg_labels) /\ ~HasSpamIndicator(arg_sender)
              /\ DomainIsTrusted(call'.domains, arg_sender))
            => call'.score = 3
      ]_vars

\* the part of C5 that is about the registry only
C5_RegistryGrows == [][important_domains \subseteq important_domains']_vars

----------------------------------------------------------------------------
(* The normaliser's contract in the terms of its specification *)

\* the headers the loop has taken so far
Taken == SubSeq(message_headers(message), 1, idx)

Named(header, name) == header.name.some /\ header.name.val = name

\* position of the last header called `name` among hs, 0 when there is none
LastIndexOf(name, hs) ==
    IF \E i \in 1..Len(hs) : Named(hs[i], name)
    THEN CHOOSE i \in 1..Len(hs) :
            Named(hs[i], name) /\ \A j \in (i + 1)..Len(hs) : ~Named(hs[j], name)
    ELSE 0

\* the value of the last header called `name`, the empty string without one
LastValueOf(name, hs) ==
    IF LastIndexOf(name, hs) = 0 THEN <<>>
    ELSE unwrap_or_default(hs[LastIndexOf(name, hs)].value)

Positions(v, c) == { i \in 1..Len(v) : v[i] = c }

FirstPosition(v, c) == CHOOSE i \in Positions(v, c) : \A j \in Positions(v, c) : i <= j

HasBothBrackets(v) == Positions(v, "<") # {} /\ Positions(v, ">") # {}

HasNoBracket(v) == Positions(v, "<") = {} /\ Positions(v, ">") = {}

\* the text before '<'
TextBeforeBracket(v) == SubSeq(v, 1, FirstPosition(v, "<") - 1)

\* the text between the brackets
TextBetweenBrackets(v) == SubSeq(v, FirstPosition(v, "<") + 1, FirstPosition(v, ">") - 1)

\* the address of a From value
FromAddress(v) == IF HasBothBrackets(v) THEN TextBetweenBrackets(v) ELSE v

\* the display name of a From value
FromName(v) ==
    IF HasBothBrackets(v)
    THEN IF trim(TextBeforeBracket(v)) = <<>>
         THEN TextBetweenBrackets(v)
         ELSE trim(TextBeforeBracket(v))
    ELSE v

\* a From value whose first '>' comes before its first '<'
ClosesBeforeOpens(v) ==
    HasBothBrackets(v) /\ FirstPosition(v, ">") < FirstPosition(v, "<")

\* C6: parse_message completes and returns a summary for every message:
\* it is scanning headers or has returned, never aborted.
C6_NoFailure ==
    /\ pc \in {"headers", "done"}
    /\ pc = "done" => summary.returned

\* the only abort: a From value whose first '>' comes before its first '<'
C6_PanicOnlyOnReversedBrackets ==
    /\ pc = "panicked" =>
          /\ Named(message_headers(message)[idx], "From")
          /\ ClosesBeforeOpens(unwrap_or_default(message_headers(message)[idx].value))
    /\ (pc = "headers" /\ idx > 0 /\ Named(message_headers(message)[idx], "From"))
          => ~ClosesBeforeOpens(unwrap_or_default(message_headers(message)[idx].value))

\* C7: once a From header has been taken, with both brackets present the
\* display name is the trimmed text before '<' (the address when that is
\* empty) and the address is the text between the brackets; with no bracket
\* both are the whole value.
C7_FromParsing ==
    (idx > 0 /\ Named(message_headers(message)[idx], "From")) =>
        LET v == unwrap_or_default(message_headers(message)[idx].value) IN
        /\ HasBothBrackets(v) => (sender = FromName(v) /\ sender_email = FromAddress(v))
        /\ HasNoBracket(v) => (sender = v /\ sender_email = v)

\* C7 on the From values whose '<' comes first
C7_BracketsInOrder ==
    (idx > 0 /\ Named(message_headers(message)[idx], "From")
       /\ ~ClosesBeforeOpens(unwrap_or_default(message_headers(message)[idx].value)))
      => C7_FromParsing

\* C8: at every point of the scan, and in the summary, subject, date and
\* both sender fields are those of the last Subject, Date and From header
\* taken (empty without one); headers of other names change nothing.
C8_LastHeaderWins ==
    pc \in {"headers", "done"} =>
        /\ subject = LastValueOf("Subject", Taken)
        /\ date_str = LastValueOf("Date", Taken)
        /\ sender = FromName(LastValueOf("From", Taken))
        /\ sender_email = FromAddress(LastValueOf("From", Taken))
        /\ pc = "done" =>
              /\ idx = Len(message_headers(message))
              /\ summary.subject = LastValueOf("Subject", message_headers(message))
              /\ summary.sender = FromName(LastValueOf("From", message_headers(message)))
              /\ summary.sender_email = FromAddress(LastValueOf("From", message_headers(message)))
              /\ parse_from_rfc2822(LastValueOf("Date", message_headers(message))).some
                    => summary.date
                         = parse_from_rfc2822(LastValueOf("Date", message_headers(message))).val

\* a summary of a message with two From headers: a bracketed one, then a bare one
C8_Witness ==
    /\ pc = "done"
    /\ Len(message_headers(message)) = 2
    /\ Named(message_headers(message)[1], "From")
    /\ Named(message_headers(message)[2], "From")
    /\ HasBothBrackets(unwrap_or_default(message_headers(message)[1].value))
    /\ HasNoBracket(unwrap_or_default(message_headers(message)[2].value))
    /\ message_headers(message)[2].value.some
    /\ summary.sender = message_headers(message)[2].value.val
    /\ summary.sender_email = message_headers(message)[2].value.val

\* C9: in the summary is_read is false exactly when the message's labels
\* contain UNREAD, and the labels are the provider's, unchanged.
C9_IsReadIffNotUnread ==
    pc = "done" =>
        /\ summary.is_read
             = ~(\E i \in 1..Len(unwrap_or_default(message.label_ids)) :
                    unwrap_or_default(message.label_ids)[i] = "UNREAD")
        /\ summary.labels = unwrap_or_default(message.label_ids)

\* an unread message among other labels, scored High
C9_Witness ==
    /\ pc = "done"
    /\ ~summary.is_read
    /\ Len(summary.labels) > 1
    /\ summary.importance_score = 3

\* C10: the classifier is called once, after the last header, with the final
\* sender address, subject and labels; the summary's importance_score is that
\* call's result on the same registry, one of 1, 2, 3, and the address stored
\* is the address classified.
C10_ScoredOnceAfterHeaders ==
    /\ pc # "done" => score_calls = <<>>
    /\ pc = "done" =>
          /\ idx = Len(message_headers(message))
          /\ Len(score_calls) = 1
          /\ score_calls[1] = <<summary.sender_email, summary.subject, summary.labels>>
          /\ score_calls[1][1] = FromAddress(LastValueOf("From", message_headers(message)))
          /\ summary.importance_score
               = calculate_score(important_domains, score_calls[1][1],
                                 score_calls[1][2], score_calls[1][3])
          /\ summary.importance_score \in {1, 2, 3}

\* a summary whose display name differs from its address, scored Low on the address
C10_Witness ==
    /\ pc = "done"
    /\ summary.sender # summary.sender_email
    /\ HasSpamIndicator(summary.sender_email)
    /\ ~HasSpamIndicator(summary.sender)
    /\ summary.importance_score = 1
    /\ Len(message_headers(message)) = 2

----------------------------------------------------------------------------
(* The handlers' contract *)

TaskIds == 1..NumTasks

\* positions between acquiring and releasing the service lock
Holding ==
    {"locked", "list_call", "get_call", "scorer_wait", "scoring", "op_call", "bulk_call"}

EmptyInput(req) ==
    \/ req.kind = "search" /\ req.query = <<>>
    \/ req.kind = "bulk_delete" /\ req.ids = <<>>

\* C11: a search with an empty query and a bulk delete with an empty id list
\* end with 400 VALIDATION_ERROR without ever queueing for or taking the
\* service lock and without any provider call; a provider failure that ends
\* a handler is reported as 500 INTERNAL_ERROR, a different kind.
C11_EmptyInputRejected ==
    \A t \in TaskIds :
        /\ EmptyInput(tasks[t].req) =>
              /\ tasks[t].pc \in {"start", "done"}
              /\ ~tasks[t].took_lock
              /\ service_lock.holder # t
              /\ \A i \in 1..Len(service_lock.waiters) : service_lock.waiters[i] # t
              /\ tasks[t].calls = <<>>
              /\ tasks[t].pc = "done" =>
                    /\ tasks[t].response.sent
                    /\ tasks[t].response.status = 400
                    /\ tasks[t].response.code = "VALIDATION_ERROR"
        /\ (tasks[t].pc = "done" /\ tasks[t].outcomes # <<>>
              /\ tasks[t].response.status # 200) =>
              /\ tasks[t].response.status = 500
              /\ tasks[t].response.code = "INTERNAL_ERROR"
              /\ ~EmptyInput(tasks[t].req)

\* an empty search is rejected while another request holds the lock with a
\* provider call in flight, and an empty bulk delete likewise
C11_Witness ==
    \E t, u \in TaskIds :
        /\ tasks[t].req.kind \in {"search", "bulk_delete"}
        /\ EmptyInput(tasks[t].req)
        /\ tasks[t].pc = "done"
        /\ tasks[t].response.status = 400
        /\ tasks[u].pc \in AwaitingProvider
        /\ service_lock.holder = u

\* C12: a task classifies only with the scorer lock held; the holder is in
\* the classification step and nowhere else, holds the service lock, has its
\* message fetched and its headers extracted, and no provider call of any
\* task is in flight while the scorer lock is held.
C12_ScorerLockAroundClassification ==
    /\ \A t \in TaskIds : tasks[t].pc = "scoring" => scorer_lock = t
    /\ Cardinality({ t \in TaskIds : tasks[t].pc = "scoring" }) <= 1
    /\ scorer_lock # 0 =>
          /\ scorer_lock \in TaskIds
          /\ tasks[scorer_lock].pc = "scoring"
          /\ service_lock.holder = scorer_lock
          /\ tasks[scorer_lock].fetched \in ProviderMessages
          /\ tasks[scorer_lock].locals
               = scan_headers(EmptyLocals, message_headers(tasks[scorer_lock].fetched))
          /\ Len(tasks[scorer_lock].outcomes) = Len(tasks[scorer_lock].calls)
          /\ \A u \in TaskIds : tasks[u].pc \notin AwaitingProvider

\* the scorer lock held for the second message of a listing, another request waiting
C12_Witness ==
    \E t, u \in TaskIds :
        /\ scorer_lock = t
        /\ tasks[t].pc = "scoring"
        /\ Len(tasks[t].emails) = 1
        /\ tasks[t].locals.sender_email # <<>>
        /\ tasks[u].pc = "waiting"

\* the safety part of C13
C13_Exclusion ==
    /\ Cardinality({ t \in TaskIds : tasks[t].pc \in Holding }) <= 1
    /\ \A t \in TaskIds : tasks[t].pc \in Holding => service_lock.holder = t
    /\ Cardinality({ t \in TaskIds : tasks[t].pc \in AwaitingProvider }) <= 1
    /\ scorer_lock # 0 => service_lock.holder = scorer_lock
    /\ \A t \in TaskIds :
          tasks[t].pc \in Terminal => (service_lock.holder # t /\ scorer_lock # t)
    /\ (\A t \in TaskIds : tasks[t].pc \in Terminal) \/ ENABLED NextHandlers

\* every request that has arrived or waits for the lock ends, with a
\* response or by the panic of the From slice; no lock is left held
C13_EveryRequestEnds ==
    \A t \in TaskIds :
        (tasks[t].pc \in {"start", "waiting"}) ~> (tasks[t].pc \in Terminal)

\* C13: at most one handler is between acquiring and releasing the service
\* lock, so provider calls never overlap; the scorer lock is taken only by
\* the holder of the service lock; a handler that has ended holds no lock;
\* some task can step until all have ended; and every request that has
\* arrived or waits for the lock acquires it and completes with a response.
C13_LockDiscipline ==
    /\ []C13_Exclusion
    /\ \A t \in TaskIds :
          (tasks[t].pc \in {"start", "waiting"})
              ~> (tasks[t].pc = "done" /\ tasks[t].response.sent)

\* the ids whose delete failed, in request order
RECURSIVE FailedOf(_, _)
FailedOf(ids, outcomes) ==
    IF ids = <<>> \/ outcomes = <<>> THEN <<>>
    ELSE (IF Head(outcomes) THEN <<>> ELSE <<Head(ids)>>)
           \o FailedOf(Tail(ids), Tail(outcomes))

\* C14: a bulk delete of a non-empty list has, when it responds, called the
\* provider's delete once per id in request order whatever the earlier
\* outcomes, and responds 200 with deleted + failed = number of ids,
\* failed = length of failed_ids, failed_ids = the ids whose delete failed.
C14_BulkDeleteCountsEveryId ==
    \A t \in TaskIds :
        (tasks[t].req.kind = "bulk_delete" /\ tasks[t].req.ids # <<>>) =>
            /\ tasks[t].pc # "aborted"
            /\ \A i \in 1..Len(tasks[t].calls) :
                  tasks[t].calls[i] = [op |-> "delete", id |-> tasks[t].req.ids[i]]
            /\ tasks[t].pc = "done" =>
                  /\ Len(tasks[t].calls) = Len(tasks[t].req.ids)
                  /\ Len(tasks[t].outcomes) = Len(tasks[t].req.ids)
                  /\ tasks[t].response.sent
                  /\ tasks[t].response.status = 200
                  /\ tasks[t].response.deleted + tasks[t].response.failed
                       = Len(tasks[t].req.ids)
                  /\ tasks[t].response.failed = Len(tasks[t].response.failed_ids)
                  /\ tasks[t].response.failed_ids
                       = FailedOf(tasks[t].req.ids, tasks[t].outcomes)

\* three ids, one of them twice: the first delete fails, the second succeeds,
\* the third fails
C14_Witness ==
    /\ tasks[1].pc = "done"
    /\ tasks[1].req.ids = <<Id1, Id2, Id1>>
    /\ tasks[1].outcomes = <<FALSE, TRUE, FALSE>>
    /\ tasks[1].response.deleted = 1
    /\ tasks[1].response.failed_ids = <<Id1, Id1>>

=============================================================================
